---- MODULE Spec2Model ----
(***************************************************************************)
(* A model of httpsh (src/httpsh.py): the command dispatcher, the          *)
(* environment of typed variables, the composite commands and the JSON     *)
(* Select engine.                                                          *)
(*                                                                         *)
(* Text that the program inspects character by character (select           *)
(* statements, JSON keys) is a sequence of one-character strings.  Text    *)
(* that the program only compares as a whole (command words, variable      *)
(* names, host names) is a string.                                         *)
(***************************************************************************)
EXTENDS Integers, Sequences, FiniteSets, TLC

(***************************************************************************)
(* JSON documents.  A dict keeps its keys in insertion order, as Python's  *)
(* dict does: k is the sequence of keys and c the sequence of values.      *)
(* All nodes have the same four fields.                                    *)
(***************************************************************************)
Scalar(s) == [t |-> "scalar", k |-> <<>>, c |-> <<>>, v |-> s]

Dict(keys, vals) == [t |-> "dict", k |-> keys, c |-> vals, v |-> ""]

List(items) == [t |-> "list", k |-> <<>>, c |-> items, v |-> ""]

EmptyDict == Dict(<<>>, <<>>)

\* The one dict object `collected` that _select creates and every call of
\* _select_part shares: a result that IS that object is this reference.
CollectedRef == [t |-> "ref", k |-> <<>>, c |-> <<>>, v |-> "collected"]

HasKey(d, key) == \E i \in 1..Len(d.k) : d.k[i] = key

KeyIndex(d, key) == CHOOSE i \in 1..Len(d.k) : d.k[i] = key

\* node[key]
GetItem(d, key) == d.c[KeyIndex(d, key)]

\* d[key] = val
SetItem(d, key, val) ==
    IF HasKey(d, key)
    THEN Dict(d.k, [d.c EXCEPT ![KeyIndex(d, key)] = val])
    ELSE Dict(Append(d.k, key), Append(d.c, val))

\* d.update(e)
RECURSIVE DictUpdate(_, _)
DictUpdate(d, e) ==
    IF Len(e.k) = 0 THEN d
    ELSE DictUpdate(SetItem(d, e.k[1], e.c[1]), Dict(Tail(e.k), Tail(e.c)))

(***************************************************************************)
(* str.split(sep) and sep.join(parts)                                      *)
(***************************************************************************)
FirstIndex(s, ch) ==
    IF \E i \in 1..Len(s) : s[i] = ch
    THEN CHOOSE i \in 1..Len(s) : s[i] = ch /\ \A j \in 1..(i - 1) : s[j] # ch
    ELSE 0

RECURSIVE Split(_, _)
Split(s, sep) ==
    LET i == FirstIndex(s, sep)
    IN  IF i = 0 THEN <<s>>
        ELSE <<SubSeq(s, 1, i - 1)>> \o Split(SubSeq(s, i + 1, Len(s)), sep)

RECURSIVE Join(_, _)
Join(parts, sep) ==
    IF Len(parts) = 0 THEN <<>>
    ELSE IF Len(parts) = 1 THEN parts[1]
    ELSE parts[1] \o <<sep>> \o Join(Tail(parts), sep)

\* [x for x in items if x.strip()]: the alphabet holds no white space, so
\* a token is kept exactly when it is not empty.
NonBlank(items) == SelectSeq(items, LAMBDA x : x # <<>>)

(***************************************************************************)
(* SelectCommand._parse_expression: re.match of the expression against a   *)
(* first group of characters other than "(", optionally followed by "(",   *)
(* a third group of characters other than ")", and ")".  Group 1 is the    *)
(* text before the first "(".  The optional part matches only if a ")"     *)
(* follows that "(", and group 3 is the text between them; whatever        *)
(* follows the ")" is ignored.                                             *)
(***************************************************************************)
\* _parse_expression that loses the collect clause.
ParseExpressionNoCollect(expression) ==
    LET open == FirstIndex(expression, "(")
    IN  [patterns |-> NonBlank(Split(IF open = 0 THEN expression
                                     ELSE SubSeq(expression, 1, open - 1), ",")),
         collect  |-> <<>>]

ParseExpression(expression) ==
    LET open   == FirstIndex(expression, "(")
        group1 == IF open = 0 THEN expression
                  ELSE SubSeq(expression, 1, open - 1)
        rest   == IF open = 0 THEN <<>>
                  ELSE SubSeq(expression, open + 1, Len(expression))
        close  == FirstIndex(rest, ")")
        group3 == IF close = 0 THEN <<>> ELSE SubSeq(rest, 1, close - 1)
    IN  [patterns |-> NonBlank(Split(group1, ",")),
         collect  |-> IF group3 = <<>> THEN <<>>
                      ELSE NonBlank(Split(group3, ","))]

(***************************************************************************)
(* SelectCommand._matches: re.match of the string against the pattern,     *)
(* anchored at both ends, each "*" of the pattern standing for any text.   *)
(* A pattern taken from group 1 holds no "(", and one taken from group 3   *)
(* holds no ")": a parenthesis in a pattern is unbalanced and re.match     *)
(* raises re.error.                                                        *)
(***************************************************************************)
BadRegex(pattern) ==
    \E i \in 1..Len(pattern) : pattern[i] \in {"(", ")"}

RECURSIVE Matches(_, _)

\* _matches that is not anchored at the start (re.search for re.match).
MatchesAnywhere(pattern, string) ==
    \E i \in 0..Len(string) :
        LET rest == SubSeq(string, i + 1, Len(string))
        IN  IF pattern = <<>> THEN rest = <<>>
            ELSE IF Head(pattern) = "*"
            THEN \E j \in 0..Len(rest) :
                    Matches(Tail(pattern), SubSeq(rest, j + 1, Len(rest)))
            ELSE /\ rest # <<>>
                 /\ Head(rest) = Head(pattern)
                 /\ Matches(Tail(pattern), Tail(rest))

Matches(pattern, string) ==
    IF pattern = <<>> THEN string = <<>>
    ELSE IF Head(pattern) = "*"
    THEN \E i \in 0..Len(string) :
            Matches(Tail(pattern), SubSeq(string, i + 1, Len(string)))
    ELSE /\ string # <<>>
         /\ Head(string) = Head(pattern)
         /\ Matches(Tail(pattern), Tail(string))

\* SelectCommand._get_matching_keys
GetMatchingKeys(node, pattern) ==
    IF node.t = "dict"
    THEN SelectSeq(node.k, LAMBDA key : Matches(pattern, key))
    ELSE <<>>

\* _get_matching_keys raises: _matches is called once per key of a dict.
MatchingRaises(node, pattern) ==
    node.t = "dict" /\ Len(node.k) > 0 /\ BadRegex(pattern)

(***************************************************************************)
(* {key: node[key] for p in patterns for key in _get_matching_keys(node,p)}*)
(* as [exc, res]: exc is "" or the exception raised on the way.            *)
(***************************************************************************)
RECURSIVE PickKeys(_, _, _)
PickKeys(node, patterns, res) ==
    IF Len(patterns) = 0 THEN [exc |-> "", res |-> res]
    ELSE IF MatchingRaises(node, patterns[1])
    THEN [exc |-> "re.error", res |-> res]
    ELSE LET keys == GetMatchingKeys(node, patterns[1])
             picked == Dict(keys, [i \in 1..Len(keys) |-> GetItem(node, keys[i])])
         IN  PickKeys(node, Tail(patterns), DictUpdate(res, picked))

\* _verify_result that accepts an empty result.
VerifyResultLenient(result) == ""

\* SelectCommand._verify_result: the exception it raises, "" if none.
VerifyResult(result) ==
    IF Len(result.k) = 0 THEN "KeyError" ELSE ""

\* _merge_dicts that keeps the collected value of a key both dicts hold.
MergeDictsCollectedWins(collected, selected) ==
    DictUpdate(selected, collected)

\* SelectCommand._merge_dicts: collected.update(selected); return collected
MergeDicts(collected, selected) == DictUpdate(collected, selected)

(***************************************************************************)
(* SelectCommand._select_part.  The outcome is [exc, res, acc, dead]:      *)
(*   exc  the exception raised ("" if none);                               *)
(*   res  the value returned, where CollectedRef stands for the shared     *)
(*        dict `collected` itself;                                         *)
(*   acc  the contents of `collected` after the call;                      *)
(*   dead whether the call visited a dict none of whose keys matched the   *)
(*        segment's patterns (a history flag, not program state).          *)
(***************************************************************************)
Outcome(exc, res, acc, dead) ==
    [exc |-> exc, res |-> res, acc |-> acc, dead |-> dead]

\* The test of the scalar branch that accepts any pattern list.
ScalarSelectedAnyPattern(parts, patterns) == Len(parts) = 0

\* elif not parts and patterns == ['*']: a node that is neither a dict nor
\* a list is returned as it is.
ScalarSelected(parts, patterns) ==
    Len(parts) = 0 /\ patterns = << <<"*">> >>

RECURSIVE SelectPart(_, _, _, _, _)
RECURSIVE SelectKeys(_, _, _, _, _, _)
RECURSIVE SelectItems(_, _, _, _, _)

\* The dict comprehension of the `if parts:` branch, one (pattern, key)
\* pair at a time, in the order Python evaluates it.  st is the outcome so
\* far; st.res is the dict being built.
SelectKeys(node, patterns, keys, parts, collect, st) ==
    IF st.exc # "" THEN st
    ELSE IF Len(keys) > 0
    THEN LET r == SelectPart(GetItem(node, keys[1]), parts[1], Tail(parts),
                             collect, st.acc)
         IN  SelectKeys(node, patterns, Tail(keys), parts, collect,
                        Outcome(r.exc,
                                IF r.exc = "" THEN SetItem(st.res, keys[1], r.res)
                                ELSE st.res,
                                r.acc, st.dead \/ r.dead))
    ELSE IF Len(patterns) = 0 THEN st
    ELSE IF MatchingRaises(node, patterns[1])
    THEN Outcome("re.error", st.res, st.acc, st.dead)
    ELSE SelectKeys(node, Tail(patterns), GetMatchingKeys(node, patterns[1]),
                    parts, collect, st)

\* The list comprehension of the `isinstance(node, list)` branch.
SelectItems(items, part, parts, collect_here, st) ==
    IF st.exc # "" \/ Len(items) = 0 THEN st
    ELSE LET r == SelectPart(items[1], part, parts, collect_here, st.acc)
         IN  SelectItems(Tail(items), part, parts, collect_here,
                         Outcome(r.exc,
                                 IF r.exc = "" THEN List(Append(st.res.c, r.res))
                                 ELSE st.res,
                                 r.acc, st.dead \/ r.dead))

SelectPart(node, part, parts, collect_here, collected) ==
    LET pe == ParseExpression(part)
    IN
    IF node.t = "dict"
    THEN LET here == PickKeys(node, collect_here, EmptyDict)
             acc1 == DictUpdate(collected, here.res)
         IN  IF here.exc # ""
             THEN Outcome(here.exc, EmptyDict, collected, FALSE)
             ELSE IF Len(parts) > 0
             THEN LET sub == SelectKeys(node, pe.patterns, <<>>, parts,
                                        pe.collect,
                                        Outcome("", EmptyDict, acc1, FALSE))
                      nomatch == sub.exc = "" /\ Len(sub.res.k) = 0
                  IN  IF sub.exc # "" THEN sub
                      ELSE Outcome(VerifyResult(sub.res), sub.res, sub.acc,
                                   sub.dead \/ nomatch)
             ELSE LET sel == PickKeys(node, pe.patterns, EmptyDict)
                      nomatch == sel.exc = "" /\ Len(sel.res.k) = 0
                  IN  IF sel.exc # ""
                      THEN Outcome(sel.exc, EmptyDict, acc1, FALSE)
                      ELSE IF VerifyResult(sel.res) # ""
                      THEN Outcome(VerifyResult(sel.res), EmptyDict, acc1, TRUE)
                      ELSE Outcome("", CollectedRef,
                                   MergeDicts(acc1, sel.res), nomatch)
    ELSE IF node.t = "list"
    THEN SelectItems(node.c, Join(pe.patterns, ","), parts, collect_here,
                     Outcome("", List(<<>>), collected, FALSE))
    ELSE IF ScalarSelected(parts, pe.patterns)
    THEN Outcome("", node, collected, FALSE)
    ELSE Outcome("KeyError", node, collected, FALSE)

(***************************************************************************)
(* SelectCommand._select and the rendering of its result.                  *)
(***************************************************************************)
\* The value a result denotes once the traversal is over: every reference
\* to `collected` shows the final contents of that one dict.
RECURSIVE Resolve(_, _)
Resolve(res, acc) ==
    IF res.t = "ref" THEN acc
    ELSE IF res.t = "scalar" THEN res
    ELSE [res EXCEPT !.c = [i \in 1..Len(res.c) |-> Resolve(res.c[i], acc)]]

\* format_json: json.dumps(d, sort_keys=True, indent=3).  The text printed
\* does not depend on the order of a dict's keys: the rendering of a dict
\* is the map from its keys to the renderings of their values.
JDict(m) == [t |-> "dict", m |-> m, c |-> <<>>, v |-> ""]

JList(items) == [t |-> "list", m |-> <<>>, c |-> items, v |-> ""]

JScalar(s) == [t |-> "scalar", m |-> <<>>, c |-> <<>>, v |-> s]

Keys(d) == {d.k[i] : i \in 1..Len(d.k)}

RECURSIVE FormatJson(_)
FormatJson(d) ==
    IF d.t = "dict"
    THEN JDict([key \in Keys(d) |-> FormatJson(GetItem(d, key))])
    ELSE IF d.t = "list"
    THEN JList([i \in 1..Len(d.c) |-> FormatJson(d.c[i])])
    ELSE JScalar(d.v)

NoJson == [t |-> "none", m |-> <<>>, c |-> <<>>, v |-> ""]

\* StringValue(pretty_json(result)) as [exc, json, dead], r being what
\* _select_part did: json is the text of the StringValue, NoJson if an
\* exception was raised.
Rendered(r) ==
    [exc  |-> r.exc,
     json |-> IF r.exc = "" THEN FormatJson(Resolve(r.res, r.acc)) ELSE NoJson,
     dead |-> r.dead]

\* SelectCommand._select
Select(json, select_stmt) ==
    LET parts == Split(select_stmt, ".")
        pe    == ParseExpression(parts[1])
    IN  Rendered(IF pe.patterns = <<>> /\ pe.collect # <<>> /\ Len(parts) >= 2
                 THEN SelectPart(json, parts[2], SubSeq(parts, 3, Len(parts)),
                                 pe.collect, EmptyDict)
                 ELSE SelectPart(json, parts[1], Tail(parts), <<>>, EmptyDict))
(***************************************************************************)
(* Inputs of the Select engine: the documents and the segments select      *)
(* statements are made of.                                                 *)
(***************************************************************************)
kA == <<"a">>
kB == <<"b">>
kMissing == <<"m", "i", "s", "s", "i", "n", "g">>
kName == <<"n", "a", "m", "e">>
kBreed == <<"b", "r", "e", "e", "d">>
kStar == <<"*">>

\* {"a": {"name": "Fluffy", "breed": "X"}, "b": 1}
DogDoc ==
    Dict(<<kA, kB>>,
         <<Dict(<<kName, kBreed>>, <<Scalar("Fluffy"), Scalar("X")>>),
           Scalar("1")>>)

\* {"name": "root", "a": {"name": "Fluffy"}}
RootDoc ==
    Dict(<<kName, kA>>,
         <<Scalar("root"), Dict(<<kName>>, <<Scalar("Fluffy")>>)>>)

\* {"a": [{"name": "Rex", "breed": "P"}, {"name": "Max", "breed": "Q"}]}
ListDoc ==
    Dict(<<kA>>,
         <<List(<<Dict(<<kName, kBreed>>, <<Scalar("Rex"), Scalar("P")>>),
                  Dict(<<kName, kBreed>>, <<Scalar("Max"), Scalar("Q")>>)>>)>>)

\* {"a": {"name": "1"}, "b": {"name": "2", "breed": "Q"}}
SiblingDoc ==
    Dict(<<kA, kB>>,
         <<Dict(<<kName>>, <<Scalar("1")>>),
           Dict(<<kName, kBreed>>, <<Scalar("2"), Scalar("Q")>>)>>)

\* {"a": {}, "name": "leaf"}
HollowDoc ==
    Dict(<<kA, kName>>, <<EmptyDict, Scalar("leaf")>>)

Docs == {DogDoc, RootDoc, ListDoc, SiblingDoc, HollowDoc, Scalar("7")}

Segments ==
    { kA, kName, kStar, kMissing,
      kA \o <<"(">> \o kBreed \o <<")">>,          \* a(breed)
      <<"(">> \o kName \o <<")">>,                 \* (name)
      kA \o <<"(">> \o kBreed,                     \* a(breed
      kA \o <<")">> \o kB,                         \* a)b
      kStar \o <<",">> \o kB,                      \* *,b
      <<"n", "*", ",">> \o kBreed }                \* n*,breed

\* The longest select statement, in segments.
MaxSegments == 3

RECURSIVE SeqsUpTo(_, _)
SeqsUpTo(S, n) ==
    IF n = 0 THEN {<<>>}
    ELSE LET shorter == SeqsUpTo(S, n - 1)
         IN  shorter \cup {Append(q, x) : q \in shorter, x \in S}

Statements == SeqsUpTo(Segments, MaxSegments) \ {<<>>}

(***************************************************************************)
(* The command registry.  Every @command class is instantiated once, in    *)
(* the order of the source file, and registered under its name and its     *)
(* aliases; a later registration overwrites an earlier one.                *)
(***************************************************************************)
Cmd(name, aliases) == [name |-> name, aliases |-> aliases]

\* The @command classes in source order.  RequestsCommand passes [] to
\* VarsCommand.__init__, whose `aliases or ['ls']` makes its aliases ['ls'].
Registrations ==
    << Cmd("help", <<"?">>),
       Cmd("run", <<".", "source">>),
       Cmd("repeat", <<>>),
       Cmd("select", <<>>),
       Cmd("request", <<"@">>),
       Cmd("send", <<"!">>),
       Cmd("curl", <<"HEAD">>),
       Cmd("head", <<"HEAD">>),
       Cmd("options", <<"OPTIONS", "opt">>),
       Cmd("get", <<"GET", "g">>),
       Cmd("put", <<"PUT", "pu">>),
       Cmd("post", <<"POST", "po">>),
       Cmd("getp", <<"GETP", "gp">>),
       Cmd("patch", <<"pat">>),
       Cmd("delete", <<"del">>),
       Cmd("headers", <<"hs">>),
       Cmd("hosts", <<>>),
       Cmd("header", <<"hd">>),
       Cmd("type", <<"t">>),
       Cmd("env", <<>>),
       Cmd("remove", <<"rm", "del">>),
       Cmd("vars", <<"ls">>),
       Cmd("requests", <<"ls">>),
       Cmd("host", <<"h">>) >>

\* A registered command instance, an AssignCommand built by find_command,
\* and the None that find_command returns for an unknown command.
Registered(name) == [kind |-> "registered", name |-> name]

AssignCommand(var_name, command) ==
    [kind |-> "assign", name |-> command.name, var_name |-> var_name,
     command |-> command]

NoCommand == [kind |-> "none"]

SeqRange(s) == {s[i] : i \in 1..Len(s)}

\* The decorator `command`: aliased_commands[name] = cmd, then every alias.
Register(registry, cmd) ==
    [w \in DOMAIN registry \cup {cmd.name} \cup SeqRange(cmd.aliases) |->
        IF w = cmd.name \/ w \in SeqRange(cmd.aliases)
        THEN Registered(cmd.name)
        ELSE registry[w]]

RECURSIVE RegisterAll(_, _)
RegisterAll(registry, cmds) ==
    IF Len(cmds) = 0 THEN registry
    ELSE RegisterAll(Register(registry, cmds[1]), Tail(cmds))

EmptyMap == [w \in {} |-> w]

\* aliased_commands once the module is loaded.
AliasedCommands == RegisterAll(EmptyMap, Registrations)

HttpCommands == {"head", "options", "get", "put", "post", "getp", "patch", "delete"}

PayloadCommands == {"put", "post", "getp", "patch"}

\* isinstance(command, HttpCommand) and isinstance(command, PayloadCommand)
IsHttpCommand(command) ==
    command.kind = "registered" /\ command.name \in HttpCommands

IsPayloadCommand(command) ==
    command.kind = "registered" /\ command.name \in PayloadCommands

\* HttpCommand.method: getp sends a GET.
Method(name) == IF name = "getp" THEN "get" ELSE name

\* is_assignable: False in Command, which AssignCommand inherits; True in
\* HttpCommand, RequestCommand and SendCommand.
IsAssignable(command) ==
    /\ command.kind = "registered"
    /\ command.name \in HttpCommands \cup {"request", "send"}

(***************************************************************************)
(* find_command as [exc, command, args].                                   *)
(***************************************************************************)
Found(exc, command, args) == [exc |-> exc, command |-> command, args |-> args]

RECURSIVE FindCommand(_, _)

\* find_command that looks the word up among the command names only.
FindCommandByName(tokens, registry) ==
    IF Len(tokens) >= 3 /\ tokens[2] = "="
    THEN LET rvalue == FindCommand(SubSeq(tokens, 3, Len(tokens)), registry)
         IN  IF rvalue.exc # "" THEN rvalue
             ELSE IF rvalue.command = NoCommand
             THEN Found("KeyError", NoCommand, <<>>)
             ELSE Found("", AssignCommand(tokens[1], rvalue.command), rvalue.args)
    ELSE IF Len(tokens) = 0 THEN Found("IndexError", NoCommand, <<>>)
    ELSE IF \E i \in 1..Len(Registrations) : Registrations[i].name = tokens[1]
    THEN Found("", registry[tokens[1]], Tail(tokens))
    ELSE Found("", NoCommand, tokens)

\* find_command that gives up on an unknown right-hand side instead of
\* raising.
FindCommandNoRaise(tokens, registry) ==
    IF Len(tokens) >= 3 /\ tokens[2] = "="
    THEN LET rvalue == FindCommand(SubSeq(tokens, 3, Len(tokens)), registry)
         IN  IF rvalue.exc # "" THEN rvalue
             ELSE IF rvalue.command = NoCommand
             THEN Found("", NoCommand, tokens)
             ELSE Found("", AssignCommand(tokens[1], rvalue.command), rvalue.args)
    ELSE IF Len(tokens) = 0 THEN Found("IndexError", NoCommand, <<>>)
    ELSE IF tokens[1] \in DOMAIN registry
    THEN Found("", registry[tokens[1]], Tail(tokens))
    ELSE Found("", NoCommand, tokens)

FindCommand(tokens, registry) ==
    IF Len(tokens) >= 3 /\ tokens[2] = "="
    THEN LET rvalue == FindCommand(SubSeq(tokens, 3, Len(tokens)), registry)
         IN  IF rvalue.exc # "" THEN rvalue
             ELSE IF rvalue.command = NoCommand
             THEN Found("KeyError", NoCommand, <<>>)
             ELSE Found("", AssignCommand(tokens[1], rvalue.command), rvalue.args)
    ELSE IF Len(tokens) = 0 THEN Found("IndexError", NoCommand, <<>>)
    ELSE IF tokens[1] \in DOMAIN registry
    THEN Found("", registry[tokens[1]], Tail(tokens))
    ELSE Found("", NoCommand, tokens)

(***************************************************************************)
(* Values.  Every Value carries the tag its type() method returns.  None   *)
(* is Python's None, which is no Value.                                    *)
(***************************************************************************)
None == [type |-> "NoneType"]

\* NullValue.type() returns None.
NullValue == [type |-> "None", cls |-> "NullValue"]

\* StringValue(text): the texts of the model carry no surrounding white
\* space, so text.strip() leaves them as they are.
StringValue(text) ==
    [type |-> "text", cls |-> "StringValue", text |-> text, json |-> NoJson]

\* ErrorString(text): a StringValue shown bold and yellow.
ErrorString(text) ==
    [type |-> "text", cls |-> "ErrorString", text |-> text, json |-> NoJson]

\* StringValue(pretty_json(result))
JsonString(json) ==
    [type |-> "text", cls |-> "StringValue", text |-> "", json |-> json]

\* A Host object lives on the heap: a Host value is a reference to it.
HostRef(id) == [type |-> "host", id |-> id]

HostObject(alias, hostname, headers) ==
    [alias |-> alias, hostname |-> hostname, headers |-> headers]

\* Response(resp): serial tells the responses of different requests apart.
Response(serial, is_json, body) ==
    [type |-> "response", serial |-> serial, is_json |-> is_json, body |-> body]

\* Request(host, command, path, payload): host is a deep copy of the Host.
Request(host, command, path, payload) ==
    [type |-> "request", host |-> host, command |-> command, path |-> path,
     payload |-> payload]

\* bool(value): no Value class defines __bool__ or __len__, so every Value
\* is true and only None is false.
Truthy(value) == value # None

(***************************************************************************)
(* Environment: variables is the dict name -> Value.                       *)
(***************************************************************************)
Without(map, name) == [n \in DOMAIN map \ {name} |-> map[n]]

With(map, name, value) ==
    [n \in DOMAIN map \cup {name} |-> IF n = name THEN value ELSE map[n]]

\* Environment.bind that keeps an existing binding.
BindFirstWins(variables, name, value) ==
    IF Truthy(value) /\ name \notin DOMAIN variables
    THEN With(variables, name, value)
    ELSE variables

\* Environment.bind: the variables after the call (it returns value).
Bind(variables, name, value) ==
    IF Truthy(value)
    THEN With(variables, name, value)
    ELSE Without(variables, name)

\* Environment.unbind: the variables after the call, and what it returns.
Unbind(variables, name) == Without(variables, name)

Popped(variables, name) ==
    IF name \in DOMAIN variables THEN variables[name] ELSE None

\* Environment.lookup that does not check the type.
LookupUntyped(variables, var_name, var_type) ==
    IF var_name \notin DOMAIN variables
    THEN [exc |-> "KeyError", val |-> None]
    ELSE [exc |-> "", val |-> variables[var_name]]

\* Environment.lookup as [exc, val]; var_type "" is the default None.
Lookup(variables, var_name, var_type) ==
    IF var_name \notin DOMAIN variables
    THEN [exc |-> "KeyError", val |-> None]
    ELSE IF var_type # "" /\ variables[var_name].type # var_type
    THEN [exc |-> "ValueError", val |-> None]
    ELSE [exc |-> "", val |-> variables[var_name]]

(***************************************************************************)
(* Command evaluation.  The world w a command runs in:                     *)
(*   host       env.host: the id of the current Host object, 0 for None   *)
(*   heap       the live Host objects, by id                               *)
(*   variables  env.variables                                              *)
(*   sent       how many times requests.request was called in the session  *)
(*   request    the arguments of the latest call of requests.request       *)
(*   shown      how many values the line being evaluated has displayed     *)
(*   first      the value of sent when the line began                      *)
(* A command's outcome is [w, exc, val]: the world it leaves, the          *)
(* exception it raised ("" if none) and the value it returned.             *)
(* net is what the transport answers to the requests of the line, in       *)
(* order: "refused" (ConnectionError), "json" or "html".                   *)
(***************************************************************************)
Result(w, exc, val) == [w |-> w, exc |-> exc, val |-> val]

Raise(w, exc) == Result(w, exc, None)

NoHeaders == [n \in {} |-> n]

NoRequest == [method |-> "", url |-> <<>>, headers |-> NoHeaders, json |-> ""]

\* The body of a JSON response.
Body(answer) == IF answer = "json" THEN DogDoc ELSE Scalar("<html>")

\* The tokens used as paths that start with "/".
SlashPaths == {"/", "/a", "/b"}

\* path = ('/' + path) if not path.startswith('/') else path, as the pair
\* of the prefix added and the path given.
WithSlash(path) == IF path \in SlashPaths THEN <<"", path>> ELSE <<"/", path>>

\* The text of a select statement given as a token.
Chars(token) ==
    CASE token = "a.name" -> Join(<<kA, kName>>, ".")
      [] token = "a.missing" -> Join(<<kA, kMissing>>, ".")
      [] token = "*" -> kStar
      [] OTHER -> <<>>

\* int(token) as [exc, n].
IntOf(token) ==
    CASE token = "0" -> [exc |-> "", n |-> 0]
      [] token = "1" -> [exc |-> "", n |-> 1]
      [] token = "2" -> [exc |-> "", n |-> 2]
      [] token = "3" -> [exc |-> "", n |-> 3]
      [] token = "4" -> [exc |-> "", n |-> 4]
      [] OTHER -> [exc |-> "ValueError", n |-> 0]

\* What input.get_payload returns at the prompt 'Enter Payload: '.
TypedPayload == "{\"k\": 1}"

\* HttpCommand.get_payload does nothing (returns None, shown as "");
\* PayloadCommand.get_payload asks the input.
GetPayload(name) == IF name \in PayloadCommands THEN TypedPayload ELSE ""

\* The Host objects that env.host or a variable refers to.
Live(w) ==
    (IF w.host = 0 THEN {} ELSE {w.host})
    \cup {w.variables[n].id : n \in {m \in DOMAIN w.variables :
                                        w.variables[m].type = "host"}}

\* The heap without the objects nothing refers to any more.
Collect(w) == [w EXCEPT !.heap = [i \in Live(w) |-> w.heap[i]]]

\* The id of a new object.
NewId(heap) ==
    CHOOSE i \in 1..(Cardinality(DOMAIN heap) + 1) :
        /\ i \notin DOMAIN heap
        /\ \A j \in 1..(i - 1) : j \in DOMAIN heap

(***************************************************************************)
(* SelectCommand.evaluate                                                  *)
(***************************************************************************)
\* What evaluate returns or raises once _select is done.
Selected(w, s) ==
    IF s.exc # "" THEN Raise(w, s.exc) ELSE Result(w, "", JsonString(s.json))

SelectEvaluate(arguments, w, value) ==
    LET direct == value.type = "response"
        looked == IF Len(arguments) > 0
                  THEN Lookup(w.variables, arguments[1], "response")
                  ELSE [exc |-> "ValueError", val |-> None]
        resp   == IF direct THEN value ELSE looked.val
        rest   == IF direct THEN arguments ELSE Tail(arguments)
    IN  IF ~direct /\ looked.exc # "" THEN Raise(w, looked.exc)
        ELSE IF ~resp.is_json
        THEN Result(w, "", ErrorString("response is not JSON."))
        ELSE IF Len(rest) = 1
        THEN Selected(w, Select(resp.body, Chars(rest[1])))
        ELSE Result(w, "", resp)

(***************************************************************************)
(* HttpCommand.evaluate.  host is the Host object passed by send, None     *)
(* otherwise; payload is the payload passed by send, "" for None.          *)
(***************************************************************************)
HttpEvaluate(name, arguments, w, net, host, payload) ==
    LET target == IF host # None THEN host
                  ELSE IF w.host # 0 THEN w.heap[w.host] ELSE None
        path   == IF Len(arguments) > 0 THEN arguments[1] ELSE "/"
        json   == IF payload # "" THEN payload ELSE GetPayload(name)
        answer == net[w.sent - w.first + 1]
        w1     == [w EXCEPT !.sent = w.sent + 1,
                            !.request = [method  |-> Method(name),
                                         url     |-> <<target.hostname>> \o WithSlash(path),
                                         headers |-> target.headers,
                                         json    |-> json]]
        resp   == Response(w1.sent, answer = "json", Body(answer))
    IN  IF target = None
        THEN Result(w, "", ErrorString("please specify a host."))
        ELSE IF answer = "refused" THEN Raise(w1, "ConnectionError")
        ELSE IF Len(arguments) > 2 /\ arguments[2] = "|"
        THEN SelectEvaluate(<<arguments[3]>>, w1, resp)
        ELSE Result(w1, "", resp)

(***************************************************************************)
(* RequestCommand.evaluate                                                 *)
(***************************************************************************)
RequestEvaluate(args, w, registry) ==
    LET found == FindCommand(args, registry)
    IN  IF w.host = 0 THEN Raise(w, "ValueError")
        ELSE IF found.exc # "" THEN Raise(w, found.exc)
        ELSE IF IsHttpCommand(found.command)
        THEN IF Len(found.args) = 0 THEN Raise(w, "IndexError")
             ELSE Result(w, "",
                         Request(w.heap[w.host], found.command.name,
                                 found.args[1],
                                 IF IsPayloadCommand(found.command)
                                 THEN TypedPayload ELSE ""))
        ELSE Result(w, "", ErrorString("is not an HTTP command (e.g. get, post)"))

(***************************************************************************)
(* SendCommand.evaluate                                                    *)
(***************************************************************************)
\* The value of the request sent, filtered through a select statement if
\* the arguments say so.
Piped(args, r) ==
    IF r.exc # "" THEN r
    ELSE IF Len(args) > 2 /\ args[2] = "|"
    THEN SelectEvaluate(<<args[3]>>, r.w, r.val)
    ELSE r

\* SendCommand.evaluate that sends the request to the current host.
SendEvaluateToCurrent(args, w, net) ==
    LET looked == IF Len(args) > 0 THEN Lookup(w.variables, args[1], "")
                  ELSE [exc |-> "ValueError", val |-> None]
        request == looked.val
    IN  IF looked.exc # "" THEN Raise(w, looked.exc)
        ELSE IF request.type # "request" THEN Raise(w, "ValueError")
        ELSE Piped(args, HttpEvaluate(request.command, <<request.path>>, w,
                                      net, None, request.payload))

SendEvaluate(args, w, net) ==
    LET looked == IF Len(args) > 0 THEN Lookup(w.variables, args[1], "")
                  ELSE [exc |-> "ValueError", val |-> None]
        request == looked.val
    IN  IF looked.exc # "" THEN Raise(w, looked.exc)
        ELSE IF request.type # "request" THEN Raise(w, "ValueError")
        ELSE Piped(args, HttpEvaluate(request.command, <<request.path>>, w,
                                      net, request.host, request.payload))

(***************************************************************************)
(* HostCommand.evaluate.  The host names of the model start with "http",   *)
(* so _get_host returns them as they are.                                  *)
(***************************************************************************)
HostEvaluate(args, w) ==
    IF Len(args) = 1
    THEN LET looked == Lookup(w.variables, args[1], "host")
         IN  IF looked.exc # "" THEN Raise(w, looked.exc)
             ELSE Result([w EXCEPT !.host = looked.val.id], "", looked.val)
    ELSE IF Len(args) = 2
    THEN LET id == NewId(w.heap)
         IN  Result([w EXCEPT !.heap = With(w.heap, id,
                                            HostObject(args[1], args[2], NoHeaders)),
                              !.variables = Bind(w.variables, args[1], HostRef(id)),
                              !.host = id],
                    "", HostRef(id))
    ELSE IF Len(args) = 0 /\ w.host # 0
    THEN Result(w, "", HostRef(w.host))
    ELSE Result(w, "", ErrorString("no current host. try: host HOSTNAME"))

(***************************************************************************)
(* HeaderCommand.evaluate                                                  *)
(***************************************************************************)
\* ' '.join(args[1:]); the lines of the model give a header one word.
HeaderValue(words) == words[1]

HeaderEvaluate(args, w) ==
    IF w.host = 0
    THEN Result(w, "", ErrorString("no host.  try 'help host'"))
    ELSE IF Len(args) = 1
    THEN IF args[1] \in DOMAIN w.heap[w.host].headers
         THEN Result(w, "", StringValue(w.heap[w.host].headers[args[1]]))
         ELSE Result(w, "", ErrorString("unknown header"))
    ELSE IF Len(args) > 1
    THEN Result([w EXCEPT !.heap[w.host].headers =
                              With(@, args[1], HeaderValue(Tail(args)))],
                "", NullValue)
    ELSE Result(w, "", ErrorString("usage: header NAME [VALUE]"))

(***************************************************************************)
(* RemoveCommand.evaluate                                                  *)
(***************************************************************************)
\* RemoveCommand.evaluate that removes the header of the name as well as
\* the variable.
RemoveEvaluateBoth(args, w) ==
    IF Len(args) # 1 THEN Result(w, "", ErrorString("usage remove NAME"))
    ELSE LET name   == args[1]
             result == Popped(w.variables, name)
             w1     == [w EXCEPT !.variables = Unbind(w.variables, name)]
             w2     == IF w.host # 0 /\ name \in DOMAIN w.heap[w.host].headers
                       THEN [w1 EXCEPT !.heap[w.host].headers = Without(@, name)]
                       ELSE w1
         IN  IF Truthy(result)
             THEN Result(IF result = HostRef(w.host)
                         THEN [w2 EXCEPT !.host = 0] ELSE w2,
                         "", StringValue("removed variable"))
             ELSE IF w.host # 0 /\ name \in DOMAIN w.heap[w.host].headers
             THEN Result(w2, "", StringValue("removed header"))
             ELSE Result(w1, "", ErrorString("no variable or header named"))

RemoveEvaluate(args, w) ==
    IF Len(args) # 1 THEN Result(w, "", ErrorString("usage remove NAME"))
    ELSE LET name   == args[1]
             result == Popped(w.variables, name)
             w1     == [w EXCEPT !.variables = Unbind(w.variables, name)]
         IN  IF Truthy(result)
             THEN Result(IF result = HostRef(w.host)
                         THEN [w1 EXCEPT !.host = 0] ELSE w1,
                         "", StringValue("removed variable"))
             ELSE IF w.host # 0 /\ name \in DOMAIN w.heap[w.host].headers
             THEN Result([w1 EXCEPT !.heap[w.host].headers = Without(@, name)],
                         "", StringValue("removed header"))
             ELSE Result(w1, "", ErrorString("no variable or header named"))

(***************************************************************************)
(* TypeCommand.evaluate                                                    *)
(***************************************************************************)
TypeEvaluate(args, w) ==
    IF Len(args) = 0 THEN Result(w, "", ErrorString("usage: type VAR"))
    ELSE LET looked == Lookup(w.variables, args[1], "")
         IN  IF looked.exc = "KeyError"
             THEN Result(w, "", ErrorString("unknown variable"))
             ELSE Result(w, "", StringValue(looked.val.type))

(***************************************************************************)
(* Command.evaluate, by the class of the command, with                     *)
(* AssignCommand.evaluate and RepeatCommand.evaluate.                      *)
(***************************************************************************)
RECURSIVE Evaluate(_, _, _, _, _)
RECURSIVE RepeatLoop(_, _, _, _, _, _)
RECURSIVE RunLines(_, _, _, _)

\* env.bind(self.var_name, result); return result
Bound(var_name, r) ==
    IF r.exc # "" THEN r
    ELSE Result([r.w EXCEPT !.variables = Bind(r.w.variables, var_name, r.val)],
                "", r.val)

\* The same, keeping the value the name has.
BoundOnce(var_name, r) ==
    IF r.exc # "" THEN r
    ELSE Result([r.w EXCEPT !.variables =
                                BindFirstWins(r.w.variables, var_name, r.val)],
                "", r.val)

\* AssignCommand.evaluate that evaluates any command.
AssignEvaluateAny(command, arguments, w, net, registry) ==
    Bound(command.var_name,
          Evaluate(command.command, arguments, w, net, registry))

\* AssignCommand.evaluate that binds the value of the first evaluation
\* only.
AssignEvaluateOnce(command, arguments, w, net, registry) ==
    IF ~IsAssignable(command.command) THEN Raise(w, "ValueError")
    ELSE BoundOnce(command.var_name,
                   Evaluate(command.command, arguments, w, net, registry))

AssignEvaluate(command, arguments, w, net, registry) ==
    IF ~IsAssignable(command.command) THEN Raise(w, "ValueError")
    ELSE Bound(command.var_name,
               Evaluate(command.command, arguments, w, net, registry))

\* The summary RepeatCommand returns.
RepeatSummary(repetitions) ==
    [type |-> "text", cls |-> "StringValue",
     text |-> "Ran command: %d times.  Average time: %f seconds",
     json |-> NoJson, count |-> repetitions]

\* if result: print_command_result(result)
Shown(r) == IF Truthy(r.val) THEN [r.w EXCEPT !.shown = @ + 1] ELSE r.w

RECURSIVE Iterate(_, _, _, _, _, _)

\* The iterations left of `for _ in range(0, repetitions)`.
RepeatLoop(command, cmd_args, left, w, net, registry) ==
    IF left <= 0 THEN Result(w, "", None)
    ELSE Iterate(command, cmd_args, left, net, registry,
                 Evaluate(command, cmd_args, w, net, registry))

\* The iterations left after the one that gave r.
Iterate(command, cmd_args, left, net, registry, r) ==
    IF r.exc # "" THEN r
    ELSE RepeatLoop(command, cmd_args, left - 1, Shown(r), net, registry)

\* What the loop leaves, summed up.
Summary(count, loop) ==
    IF loop.exc # "" THEN loop
    ELSE IF count <= 0 THEN Raise(loop.w, "ValueError")
    ELSE Result(loop.w, "", RepeatSummary(count))

\* statistics.mean of no times raises StatisticsError, a ValueError.
RepeatEvaluate(arguments, w, net, registry) ==
    IF Len(arguments) = 0 THEN Raise(w, "IndexError")
    ELSE LET count == IntOf(arguments[1])
             found == FindCommand(Tail(arguments), registry)
         IN  IF count.exc # "" THEN Raise(w, count.exc)
             ELSE IF found.exc # "" THEN Raise(w, found.exc)
             ELSE IF found.command = NoCommand THEN Raise(w, "KeyError")
             ELSE Summary(count.n,
                          RepeatLoop(found.command, found.args, count.n, w,
                                     net, registry))

(***************************************************************************)
(* RunCommand.evaluate.  A script is the sequence of the lines of the      *)
(* file that are neither blank nor comments, each as its tokens.           *)
(***************************************************************************)
FileNames == {"ok", "bad", "typo"}

\* The files there are: one whose lines all succeed when the transport
\* answers, one whose second line raises KeyError, and one whose second
\* line names no command.
Script(file_name) ==
    CASE file_name = "ok" ->
             << <<"host", "h", "http://one">>, <<"y", "=", "get", "/a">> >>
      [] file_name = "bad" ->
             << <<"host", "h", "http://one">>, <<"x", "=", "Get">>,
                <<"y", "=", "get", "/a">> >>
      [] file_name = "typo" ->
             << <<"host", "h", "http://one">>, <<"nope">>,
                <<"y", "=", "get", "/a">> >>

ScriptRan ==
    [type |-> "text", cls |-> "StringValue",
     text |-> "Script ran in: %.3f seconds", json |-> NoJson]

\* The loop after the evaluation of a line gave r: an exception leaves
\* the loop, and evaluate with it.
Continued(lines, net, registry, r) ==
    IF r.exc # "" THEN r
    ELSE RunLines(Tail(lines), Shown(r), net, registry)

\* read_eval_print on the first line left, found being what read_command
\* made of it: a line that names no command makes read_eval_print return
\* (False, line), and the loop goes on.
Ran(lines, w, net, registry, found) ==
    IF found.exc # "" THEN Raise(w, found.exc)
    ELSE IF found.command = NoCommand
    THEN RunLines(Tail(lines), w, net, registry)
    ELSE Continued(lines, net, registry,
                   Evaluate(found.command, found.args, w, net, registry))

\* The loop that goes on after a line that raised.
RunLinesKeepGoing(lines, w, net, registry) ==
    IF Len(lines) = 0 THEN Result(w, "", ScriptRan)
    ELSE IF FindCommand(lines[1], registry).exc # ""
    THEN RunLines(Tail(lines), w, net, registry)
    ELSE Ran(lines, w, net, registry, FindCommand(lines[1], registry))

\* `while True: success, result = read_eval_print(input, environment)`
\* until the end of the file.
RunLines(lines, w, net, registry) ==
    IF Len(lines) = 0 THEN Result(w, "", ScriptRan)
    ELSE Ran(lines, w, net, registry, FindCommand(lines[1], registry))

RunEvaluate(arguments, w, net, registry) ==
    IF Len(arguments) = 0 THEN Raise(w, "ValueError")
    ELSE IF arguments[1] \notin FileNames THEN Raise(w, "FileNotFoundError")
    ELSE RunLines(Script(arguments[1]), w, net, registry)

(***************************************************************************)
(* VarsCommand.evaluate, which RequestsCommand inherits.                   *)
(***************************************************************************)
\* StringValue(result): the text of one entry for each name listed.
ListingValue(names) ==
    [type |-> "text", cls |-> "StringValue", text |-> "", json |-> NoJson,
     names |-> names]

\* self.var_type: None for vars, Request.TYPE for requests.  The tag "None"
\* is the one of the values whose type() returns None.
VarType(name) == IF name = "requests" THEN "request" ELSE "None"

VarsEvaluate(name, w) ==
    Result(w, "",
           ListingValue({n \in DOMAIN w.variables :
                             w.variables[n].type = VarType(name)}))

Evaluate(command, arguments, w, net, registry) ==
    IF command.kind = "assign"
    THEN AssignEvaluate(command, arguments, w, net, registry)
    ELSE IF command.name \in HttpCommands
    THEN HttpEvaluate(command.name, arguments, w, net, None, "")
    ELSE CASE command.name = "repeat" -> RepeatEvaluate(arguments, w, net, registry)
           [] command.name = "run" -> RunEvaluate(arguments, w, net, registry)
           [] command.name = "select" -> SelectEvaluate(arguments, w, None)
           [] command.name = "request" -> RequestEvaluate(arguments, w, registry)
           [] command.name = "send" -> SendEvaluate(arguments, w, net)
           [] command.name = "host" -> HostEvaluate(arguments, w)
           [] command.name = "header" -> HeaderEvaluate(arguments, w)
           [] command.name = "remove" -> RemoveEvaluate(arguments, w)
           [] command.name = "type" -> TypeEvaluate(arguments, w)
           [] command.name \in {"vars", "requests"} ->
                  VarsEvaluate(command.name, w)

(***************************************************************************)
(* One line at the prompt: read_eval_print, and what main does with what   *)
(* it returns or raises.  The outcome keeps the exception main caught.     *)
(***************************************************************************)
\* if result: print_command_result(result); the objects nothing refers to
\* any more are gone.
Printed(r) ==
    IF r.exc = "" THEN Result(Collect(Shown(r)), "", r.val)
    ELSE Result(Collect(r.w), r.exc, r.val)

ReadEvalPrint(tokens, w, net, registry) ==
    LET w0    == [w EXCEPT !.shown = 0, !.first = w.sent]
        found == FindCommand(tokens, registry)
    IN  IF found.exc # "" THEN Raise(w0, found.exc)
        ELSE IF found.command # NoCommand
        THEN Printed(Evaluate(found.command, found.args, w0, net, registry))
        ELSE IF Len(tokens) = 1
        THEN LET looked == Lookup(w0.variables, tokens[1], "")
             IN  IF looked.exc # "" THEN Raise(w0, looked.exc)
                 ELSE Result([w0 EXCEPT !.shown = @ + 1], "", looked.val)
        ELSE Result(w0, "", ErrorString("unknown command or variable"))

(***************************************************************************)
(* Inputs of the dispatcher, of the environment and of the shell.          *)
(***************************************************************************)
\* The words token lists are made of: command names, aliases, a word that
\* differs from a name by its case, a variable name, "=" and a path.
Words == {"get", "del", "ls", "Get", "x", "=", "/a"}

\* The longest token list given to find_command.
MaxTokens == 5

TokenLists == SeqsUpTo(Words, MaxTokens) \ {<<>>}

\* The variable names and the values given to bind, unbind and lookup.
Names == {"x", "y"}

SomeHost == HostObject("h", "http://one", NoHeaders)

Values ==
    { None, NullValue, StringValue(""), StringValue("hello"),
      ErrorString("please specify a host."), HostRef(1),
      Response(1, TRUE, DogDoc), Request(SomeHost, "get", "/a", "") }

\* The type tags given to lookup; "" is the default, no expected type.
TypeTags == {"", "host", "response", "text"}

\* The largest count given to repeat, and the most requests of a session.
MaxRepeat == 2

MaxRequests == 3

NumToken(n) ==
    CASE n = 0 -> "0" [] n = 1 -> "1" [] n = 2 -> "2" [] n = 3 -> "3"
      [] OTHER -> "4"

Answers == {"refused", "json", "html"}

\* The answers of the transport to the requests of one line: the same
\* answer to each request until the connection is refused, if ever.  A
\* line stops at the first request refused.
Nets ==
    { [i \in 1..MaxRepeat |-> IF i < k THEN a ELSE "refused"] :
          a \in Answers \ {"refused"}, k \in 1..(MaxRepeat + 1) }

GetA == <<"get", "/a">>

\* The lines typed at the prompt.
Lines ==
    { <<"host", "h", "http://one">>,
      <<"host", "h">>,
      <<"header", "A", "b">>,
      <<"remove", "h">>,
      GetA,
      <<"x", "=">> \o GetA,
      <<"x", "=">> \o GetA \o <<"|", "a.name">>,
      <<"x", "=">> \o GetA \o <<"|", "a.missing">>,
      <<"x", "=", "repeat", NumToken(MaxRepeat)>> \o GetA,
      <<"x", "=", "header", "A", "c">>,
      <<"x", "=", "y", "=">> \o GetA,
      <<"repeat", NumToken(MaxRepeat), "x", "=">> \o GetA,
      <<"h", "=">> \o GetA,
      <<"x">> }

(***************************************************************************)
(* State.                                                                  *)
(***************************************************************************)
VARIABLES
    aliased_commands,   \* the registry: word -> command
    host,               \* env.host: the id of the current Host, 0 for None
    heap,               \* the live Host objects, by id
    variables,          \* env.variables
    sent,               \* how many times requests.request was called
    request,            \* the arguments of its latest call
    line,               \* the tokens of the latest line evaluated
    outcome,            \* what became of it: [exc, val, shown]
    pc,                 \* where main is: "startup", "prompt", "ended" by
                        \* the end of the input, or "crashed"
    doc,                \* the JSON document _select is run on
    segs,               \* the segments of the select statement
    selPc,              \* "ready" before _select has run, "done" after
    selOut,             \* what _select did: [exc, json, dead]
    tokens,             \* the token list given to find_command
    findPc,             \* "ready" before find_command has run, "done" after
    found,              \* what find_command did: [exc, command, args]
    envOp,              \* the latest call of bind, unbind or lookup
    current             \* history: name -> the value of its latest bind,
                        \* None if it was never bound or unbound since

envVars == <<host, heap, variables>>

shellVars ==
    <<aliased_commands, host, heap, variables, sent, request, line, outcome, pc>>

selectVars == <<doc, segs, selPc, selOut>>

findVars == <<tokens, findPc, found>>

apiVars == <<envOp, current>>

vars == <<shellVars, selectVars, findVars, apiVars>>

NoOut == [exc |-> "", json |-> NoJson, dead |-> FALSE]

NoOutcome == [exc |-> "", val |-> None, shown |-> 0]

NoOp == [op |-> "", name |-> "", arg |-> None, type |-> "", exc |-> "", ret |-> None]

\* The session as main starts it, at its first prompt when there is no
\* startup script: the registry filled by the @command decorators,
\* Environment() and nothing sent.
ShellStart ==
    /\ aliased_commands = AliasedCommands
    /\ host = 0
    /\ heap = EmptyMap
    /\ variables = EmptyMap
    /\ sent = 0
    /\ request = NoRequest
    /\ line = <<>>
    /\ outcome = NoOutcome
    /\ pc = "prompt"

SelectIdle ==
    /\ doc = Scalar("")
    /\ segs = <<>>
    /\ selPc = "idle"
    /\ selOut = NoOut

FindIdle ==
    /\ tokens = <<>>
    /\ findPc = "idle"
    /\ found = Found("", NoCommand, <<>>)

ApiIdle ==
    /\ envOp = NoOp
    /\ current = [n \in Names |-> None]

(***************************************************************************)
(* SpecSelect: SelectCommand._select on every document and statement.      *)
(***************************************************************************)
SelectInit ==
    /\ doc \in Docs
    /\ segs \in Statements
    /\ selPc = "ready"
    /\ selOut = NoOut
    /\ ShellStart /\ FindIdle /\ ApiIdle

\* One call of SelectCommand._select on the document.
SelectStep ==
    /\ selPc = "ready"
    /\ selOut' = Select(doc, Join(segs, "."))
    /\ selPc' = "done"
    /\ UNCHANGED <<doc, segs, shellVars, findVars, apiVars>>

SelectNext == SelectStep

SpecSelect == SelectInit /\ [][SelectNext]_vars

(***************************************************************************)
(* SpecFind: find_command on every token list.                             *)
(***************************************************************************)
FindInit ==
    /\ tokens \in TokenLists
    /\ findPc = "ready"
    /\ found = Found("", NoCommand, <<>>)
    /\ ShellStart /\ SelectIdle /\ ApiIdle

\* One call of find_command: it reads aliased_commands and writes nothing.
FindStep ==
    /\ findPc = "ready"
    /\ found' = FindCommand(tokens, aliased_commands)
    /\ findPc' = "done"
    /\ UNCHANGED <<tokens, shellVars, selectVars, apiVars>>

FindNext == FindStep

SpecFind == FindInit /\ [][FindNext]_vars

(***************************************************************************)
(* SpecEnv: any sequence of calls of Environment.bind, unbind and lookup.  *)
(***************************************************************************)
EnvInit == ShellStart /\ SelectIdle /\ FindIdle /\ ApiIdle

BindStep(name, value) ==
    /\ variables' = Bind(variables, name, value)
    /\ envOp' = [NoOp EXCEPT !.op = "bind", !.name = name, !.arg = value,
                             !.ret = value]
    /\ current' = [current EXCEPT ![name] = value]
    /\ UNCHANGED <<aliased_commands, host, heap, sent, request, line, outcome,
                   pc, selectVars, findVars>>

UnbindStep(name) ==
    /\ variables' = Unbind(variables, name)
    /\ envOp' = [NoOp EXCEPT !.op = "unbind", !.name = name,
                             !.ret = Popped(variables, name)]
    /\ current' = [current EXCEPT ![name] = None]
    /\ UNCHANGED <<aliased_commands, host, heap, sent, request, line, outcome,
                   pc, selectVars, findVars>>

LookupStep(name, type) ==
    /\ LET looked == Lookup(variables, name, type)
       IN  envOp' = [NoOp EXCEPT !.op = "lookup", !.name = name, !.type = type,
                                 !.exc = looked.exc, !.ret = looked.val]
    /\ UNCHANGED <<shellVars, current, selectVars, findVars>>

EnvNext ==
    \/ \E name \in Names, value \in Values : BindStep(name, value)
    \/ \E name \in Names : UnbindStep(name)
    \/ \E name \in Names, type \in TypeTags : LookupStep(name, type)

SpecEnv == EnvInit /\ [][EnvNext]_vars

(***************************************************************************)
(* Spec: an interactive session, one line at the prompt after the other.   *)
(***************************************************************************)
World ==
    [host |-> host, heap |-> heap, variables |-> variables, sent |-> sent,
     request |-> request, shown |-> 0, first |-> sent]

Init == ShellStart /\ SelectIdle /\ FindIdle /\ ApiIdle

\* main's loop body: read_eval_print on the line typed, every exception
\* caught and reported.
Prompt(typed, net) ==
    \E r \in {ReadEvalPrint(typed, World, net, aliased_commands)} :
        /\ pc = "prompt"
        /\ r.w.sent <= MaxRequests
        /\ host' = r.w.host
        /\ heap' = r.w.heap
        /\ variables' = r.w.variables
        /\ sent' = r.w.sent
        /\ request' = r.w.request
        /\ line' = typed
        /\ outcome' = [exc |-> r.exc, val |-> r.val, shown |-> r.w.shown]
        /\ UNCHANGED <<aliased_commands, pc, selectVars, findVars, apiVars>>

Next == \E typed \in Lines, net \in Nets : Prompt(typed, net)

Spec == Init /\ [][Next]_vars

(***************************************************************************)
(* SpecRepeat: a session of repeat lines, of every count from 0 on.        *)
(***************************************************************************)
RepeatGet(n) == <<"repeat", NumToken(n)>> \o GetA

RepeatLines ==
    { <<"host", "h", "http://one">>, <<"remove", "h">>, <<"header", "A", "b">> }
    \cup { RepeatGet(n) : n \in 0..MaxRepeat }
    \cup { <<"repeat", NumToken(n), "x", "=">> \o GetA : n \in 0..MaxRepeat }

RepeatNext == \E typed \in RepeatLines, net \in Nets : Prompt(typed, net)

SpecRepeat == Init /\ [][RepeatNext]_vars

(***************************************************************************)
(* SpecRequest: a session that stores a request, edits, switches and       *)
(* removes hosts, and sends the request stored.                            *)
(***************************************************************************)
RRequest == <<"r", "=", "request", "get", "/a">>

SendR == <<"send", "r">>

\* The lines that change the current host, its headers or the hosts
\* defined.
HostLines ==
    { <<"host", "h", "http://one">>, <<"host", "g", "http://two">>,
      <<"host", "h">>, <<"header", "A", "b">>, <<"remove", "A">>,
      <<"remove", "h">> }

RequestLines == HostLines \cup {RRequest, SendR}

RequestNext == \E typed \in RequestLines, net \in Nets : Prompt(typed, net)

SpecRequest == Init /\ [][RequestNext]_vars

(***************************************************************************)
(* SpecScript: main from its start: the startup script if there is one,    *)
(* then the lines typed at the prompt, scripts loaded by run among them,   *)
(* until the end of the input.                                             *)
(***************************************************************************)
ScriptInit ==
    /\ aliased_commands = AliasedCommands
    /\ host = 0 /\ heap = EmptyMap /\ variables = EmptyMap
    /\ sent = 0 /\ request = NoRequest
    /\ line = <<>> /\ outcome = NoOutcome
    /\ pc = "startup"
    /\ SelectIdle /\ FindIdle /\ ApiIdle

\* run_startup_script when ~/.httpshrc does not exist.
NoStartup ==
    /\ pc = "startup"
    /\ pc' = "prompt"
    /\ UNCHANGED <<aliased_commands, host, heap, variables, sent, request,
                   line, outcome, selectVars, findVars, apiVars>>

\* run_startup_script when ~/.httpshrc is the file: main calls it outside
\* its try statement, so an exception of a line ends the process.
Startup(file_name, net) ==
    \E r \in {Evaluate(Registered("run"), <<file_name>>, World, net,
                      aliased_commands)} :
        /\ pc = "startup"
        /\ pc' = IF r.exc # "" THEN "crashed" ELSE "prompt"
        /\ host' = r.w.host
        /\ heap' = Collect(r.w).heap
        /\ variables' = r.w.variables
        /\ sent' = r.w.sent
        /\ request' = r.w.request
        /\ line' = <<"run", file_name>>
        /\ outcome' = [exc |-> r.exc, val |-> None, shown |-> r.w.shown]
        /\ UNCHANGED <<aliased_commands, selectVars, findVars, apiVars>>

\* EOFError at the prompt: main leaves its loop.
EndOfInput ==
    /\ pc = "prompt"
    /\ pc' = "ended"
    /\ UNCHANGED <<aliased_commands, host, heap, variables, sent, request,
                   line, outcome, selectVars, findVars, apiVars>>

ScriptLines ==
    { <<"run", f>> : f \in FileNames \cup {"nofile"} }
    \cup { <<"run">>, <<"remove", "h">>, <<"remove", "y">>, <<"x", "=", "Get">>,
           <<"nope">>, GetA }

ScriptNext ==
    \/ NoStartup
    \/ \E file_name \in FileNames, net \in Nets : Startup(file_name, net)
    \/ \E typed \in ScriptLines, net \in Nets : Prompt(typed, net)
    \/ EndOfInput

SpecScript == ScriptInit /\ [][ScriptNext]_vars

(***************************************************************************)
(* SpecPipe: a session of HTTP commands and of send, with and without a    *)
(* select statement after a "|".                                           *)
(***************************************************************************)
PipeTail == <<"|", "a.name">>

\* The lines that make a request: an HTTP verb or send, its arguments, and
\* the pipe after them or not.
RequestingLines ==
    { GetA, GetA \o PipeTail, <<"get">>, <<"get">> \o PipeTail,
      <<"delete", "/a">> \o PipeTail, SendR, SendR \o PipeTail }

PipeLines == {<<"host", "h", "http://one">>, RRequest} \cup RequestingLines

PipeNext == \E typed \in PipeLines, net \in Nets : Prompt(typed, net)

SpecPipe == Init /\ [][PipeNext]_vars

(***************************************************************************)
(* SpecVars: a session that binds variables of every type and lists them.  *)
(***************************************************************************)
ListingLines == {<<"vars">>, <<"ls">>, <<"requests">>}

VarsLines ==
    { <<"host", "h", "http://one">>, <<"y", "=">> \o GetA, RRequest,
      <<"x", "=">> \o GetA \o PipeTail, <<"remove", "y">> } \cup ListingLines

VarsNext == \E typed \in VarsLines, net \in Nets : Prompt(typed, net)

SpecVars == Init /\ [][VarsNext]_vars

(***************************************************************************)
(* SpecRemove: a session with variables and headers of the same names,     *)
(* and remove.                                                             *)
(***************************************************************************)
RemoveNames == {"h", "g", "y"}

Remove(name) == <<"remove", name>>

RemoveLines ==
    { <<"host", "h", "http://one">>, <<"host", "g", "http://two">>,
      <<"host", "h">>, <<"host", "g">>, <<"header", "h", "c">>,
      <<"header", "g", "b">> } \cup {Remove(name) : name \in RemoveNames}

RemoveNext == \E typed \in RemoveLines, net \in Nets : Prompt(typed, net)

SpecRemove == Init /\ [][RemoveNext]_vars
(***************************************************************************)
(* Properties of the Select engine, checked under SpecSelect.              *)
(***************************************************************************)
aBreed == kA \o <<"(">> \o kBreed \o <<")">>

\* A segment that is one literal key.
PlainKey(seg) ==
    /\ seg # <<>>
    /\ \A i \in 1..Len(seg) : seg[i] \notin {"*", ",", "(", ")", "."}

\* A segment that is one glob pattern, without a collect clause.
PlainPattern(seg) ==
    /\ seg # <<>>
    /\ \A i \in 1..Len(seg) : seg[i] \notin {",", "(", ")", "."}

\* The keys of a dict that match one of the patterns, as a set.
KeysMatching(d, patterns) ==
    {key \in Keys(d) : \E p \in patterns : Matches(p, key)}

\* The rendering of dict d restricted to the keys in ks.
Restricted(d, ks) == JDict([key \in ks |-> FormatJson(GetItem(d, key))])

Done(d, statement) == selPc = "done" /\ doc = d /\ segs = statement

\* C1 as stated: on {"a": {"name": "Fluffy", "breed": "X"}, "b": 1} the
\* statement a.name returns exactly {"name": "Fluffy"} and a.* returns
\* exactly {"name": "Fluffy", "breed": "X"}.
C1_FlatResult ==
    /\ Done(DogDoc, <<kA, kName>>) =>
          /\ selOut.exc = ""
          /\ selOut.json = JDict(kName :> JScalar("Fluffy"))
    /\ Done(DogDoc, <<kA, kStar>>) =>
          /\ selOut.exc = ""
          /\ selOut.json = JDict(kName :> JScalar("Fluffy")
                                 @@ kBreed :> JScalar("X"))

\* C1 (amended): a statement k.P, where doc[k] is an object, returns the
\* object with the single key k whose value is the object made of exactly
\* the keys of doc[k] that match P, with their values; it fails with
\* KeyError when no key of doc[k] matches P.  On the example document
\* a.name returns {"a": {"name": "Fluffy"}} and a.* returns
\* {"a": {"name": "Fluffy", "breed": "X"}}.
C1_NestedResult ==
    /\ Done(DogDoc, <<kA, kName>>) =>
          /\ selOut.exc = ""
          /\ selOut.json = JDict(kA :> JDict(kName :> JScalar("Fluffy")))
    /\ Done(DogDoc, <<kA, kStar>>) =>
          /\ selOut.exc = ""
          /\ selOut.json = JDict(kA :> JDict(kName :> JScalar("Fluffy")
                                             @@ kBreed :> JScalar("X")))
    /\ ( /\ selPc = "done"
         /\ Len(segs) = 2
         /\ PlainKey(segs[1])
         /\ PlainPattern(segs[2])
         /\ doc.t = "dict"
         /\ HasKey(doc, segs[1])
         /\ GetItem(doc, segs[1]).t = "dict" ) =>
          LET inner == GetItem(doc, segs[1])
              ks    == KeysMatching(inner, {segs[2]})
          IN  IF ks = {}
              THEN selOut.exc = "KeyError"
              ELSE /\ selOut.exc = ""
                   /\ selOut.json = JDict(segs[1] :> Restricted(inner, ks))

C1_Witness ==
    /\ Done(DogDoc, <<kA, kStar>>)
    /\ selOut.exc = ""
    /\ DOMAIN selOut.json.m = {kA}
    /\ DOMAIN selOut.json.m[kA].m = {kName, kBreed}

\* C2 as stated: on the example document a(breed).name returns exactly
\* {"breed": "X", "name": "Fluffy"}.
C2_FlatCollect ==
    Done(DogDoc, <<aBreed, kName>>) =>
        /\ selOut.exc = ""
        /\ selOut.json = JDict(kBreed :> JScalar("X")
                               @@ kName :> JScalar("Fluffy"))

\* C2 (amended): on the example document a(breed).name returns
\* {"a": {"breed": "X", "name": "Fluffy"}}: the keys of doc["a"] matched by
\* the collect clause of segment a are merged with the keys selected by
\* the last segment into the object returned under the key a.
C2_NestedCollect ==
    /\ Done(DogDoc, <<aBreed, kName>>) =>
          /\ selOut.exc = ""
          /\ selOut.json = JDict(kA :> JDict(kBreed :> JScalar("X")
                                             @@ kName :> JScalar("Fluffy")))
    /\ ( /\ selPc = "done"
         /\ Len(segs) = 2
         /\ segs[1] = aBreed
         /\ PlainPattern(segs[2])
         /\ doc.t = "dict"
         /\ HasKey(doc, kA)
         /\ GetItem(doc, kA).t = "dict"
         /\ KeysMatching(GetItem(doc, kA), {segs[2]}) # {} ) =>
          LET inner == GetItem(doc, kA)
          IN  /\ selOut.exc = ""
              /\ selOut.json =
                    JDict(kA :> Restricted(inner,
                                    KeysMatching(inner, {kBreed, segs[2]})))

C2_Witness ==
    /\ Done(DogDoc, <<aBreed, kName>>)
    /\ selOut.exc = ""
    /\ DOMAIN selOut.json.m[kA].m = {kBreed, kName}

\* C3: whenever the traversal reaches an object none of whose keys matches
\* a pattern of the current segment, the whole Select fails with KeyError
\* (TraversalExhausted) and returns nothing; a.missing fails on the example
\* document.
C3_FailFast ==
    /\ (selPc = "done" /\ selOut.dead) =>
          /\ selOut.exc = "KeyError"
          /\ selOut.json = NoJson
    /\ Done(DogDoc, <<kA, kMissing>>) =>
          /\ selOut.dead
          /\ selOut.exc = "KeyError"

\* A dead end below the root, with collected keys in the accumulator.
C3_Witness ==
    /\ Done(DogDoc, <<aBreed, kMissing>>)
    /\ selOut.dead
    /\ selOut.exc = "KeyError"

(***************************************************************************)
(* Claims about find_command, checked under SpecFind.                      *)
(***************************************************************************)
\* The words some @command registers, as a name or as an alias.
RegisteredWords ==
    UNION { {Registrations[i].name} \cup SeqRange(Registrations[i].aliases) :
                i \in 1..Len(Registrations) }

\* The command registers itself under the word.
AnswersTo(command, word) ==
    \E i \in 1..Len(Registrations) :
        /\ Registrations[i].name = command.name
        /\ word \in {Registrations[i].name} \cup SeqRange(Registrations[i].aliases)

HasAssign == Len(tokens) >= 2 /\ tokens[2] = "="

EnvUntouched ==
    /\ aliased_commands = AliasedCommands
    /\ host = 0 /\ heap = EmptyMap /\ variables = EmptyMap
    /\ sent = 0 /\ request = NoRequest

\* C4: for every non-empty token list whose second token is not "=",
\* find_command returns a registered command with tokens[1:] if and only if
\* the first token is exactly a registered name or alias, and otherwise no
\* command with the whole token list; the registry and the environment are
\* as they were.
C4_PlainDispatch ==
    (findPc = "done" /\ ~HasAssign) =>
        /\ found.exc = ""
        /\ IF tokens[1] \in RegisteredWords
           THEN /\ found.command.kind = "registered"
                /\ AnswersTo(found.command, tokens[1])
                /\ found.args = Tail(tokens)
           ELSE /\ found.command = NoCommand
                /\ found.args = tokens
        /\ EnvUntouched

\* An alias resolved to the command that registered it last.
C4_Witness ==
    /\ findPc = "done"
    /\ tokens = <<"del", "/a">>
    /\ found.command = Registered("remove")
    /\ found.args = <<"/a">>

Rest == SubSeq(tokens, 3, Len(tokens))

\* C5 (amended): a token list of three tokens or more whose second token is
\* "=" is an assignment: tokens[2:] is resolved recursively, an unresolved
\* right-hand side raises KeyError, and a resolved one is returned in an
\* AssignCommand for tokens[0] with the arguments the inner resolution left.
\* The two-token list `NAME =` is no assignment: it is dispatched on its
\* first token like any other list and nothing is raised.
C5_AssignDispatch ==
    (findPc = "done" /\ HasAssign) =>
        IF Len(tokens) = 2
        THEN /\ found.exc = ""
             /\ IF tokens[1] \in RegisteredWords
                THEN found.command.kind = "registered" /\ found.args = <<"=">>
                ELSE found.command = NoCommand /\ found.args = tokens
        ELSE LET inner == FindCommand(Rest, aliased_commands)
             IN  /\ (inner.exc # "" \/ inner.command = NoCommand)
                        => (found.exc = "KeyError" /\ found.command = NoCommand)
                 /\ (inner.exc = "" /\ inner.command # NoCommand)
                        => /\ found.exc = ""
                           /\ found.command.kind = "assign"
                           /\ found.command.var_name = tokens[1]
                           /\ found.command.command = inner.command
                           /\ found.args = inner.args
                 /\ (tokens = <<"x", "=", "get", "/a">>) =>
                        found = Found("", AssignCommand("x", Registered("get")),
                                      <<"/a">>)
                 /\ (tokens = <<"x", "=", "Get">>) => found.exc = "KeyError"
                 /\ (tokens = <<"x", "=", "x", "=">>) => found.exc = "KeyError"
                 /\ (tokens = <<"x", "=", "x", "=", "ls">>) =>
                        found.command =
                            AssignCommand("x", AssignCommand("x", Registered("requests")))

C5_Witness ==
    /\ findPc = "done"
    /\ tokens = <<"x", "=", "get", "/a">>
    /\ found.command.kind = "assign"
    /\ found.command.var_name = "x"

\* C5 as claimed: whenever the second token is "=", find_command either
\* fails or returns an AssignCommand for tokens[0]; it never returns no
\* command.
C5_AssignAlways ==
    (findPc = "done" /\ HasAssign) =>
        \/ found.exc # ""
        \/ found.command.kind = "assign" /\ found.command.var_name = tokens[1]

(***************************************************************************)
(* Claims about Environment, checked under SpecEnv.                        *)
(***************************************************************************)
BindingOf(map, name) == IF name \in DOMAIN map THEN map[name] ELSE None

\* C9: after any history of bind and unbind, lookup raises KeyError exactly
\* when the name is not bound (never bound, unbound since, or last bound to
\* None), raises ValueError exactly when it is bound, a type is expected and
\* the type of the value differs, and otherwise returns the value bound
\* last; unbind returns the value the name had or None; lookup leaves the
\* variables as they are.
C9_LookupHistory ==
    [][ /\ envOp'.op = "lookup" =>
            LET value == current[envOp'.name]
            IN  /\ envOp'.exc = "KeyError" <=> value = None
                /\ envOp'.exc = "ValueError" <=>
                       /\ value # None
                       /\ envOp'.type # ""
                       /\ value.type # envOp'.type
                /\ envOp'.exc = "" => envOp'.ret = value
                /\ envOp'.exc \in {"", "KeyError", "ValueError"}
                /\ variables' = variables
        /\ envOp'.op = "unbind" =>
            /\ envOp'.ret = current[envOp'.name]
            /\ envOp'.name \notin DOMAIN variables'
      ]_vars

\* A name bound twice and looked up: the second value is returned; and a
\* lookup that failed on the type.
C9_Witness ==
    \/ /\ envOp.op = "lookup" /\ envOp.exc = ""
       /\ envOp.ret = StringValue("hello")
       /\ current["y"] = HostRef(1)
    \/ envOp.op = "lookup" /\ envOp.exc = "ValueError"

\* C10 (amended): no variable is bound to None.  bind(name, value) removes
\* the binding of name when value is None and stores every other value,
\* NullValue and the empty text included; it leaves the other names alone
\* and returns the value it was given.
C10_BindStoresValues ==
    [][ envOp'.op = "bind" =>
            /\ envOp'.arg = None => envOp'.name \notin DOMAIN variables'
            /\ envOp'.arg # None =>
                   /\ envOp'.name \in DOMAIN variables'
                   /\ variables'[envOp'.name] = envOp'.arg
            /\ \A n \in Names \ {envOp'.name} :
                   BindingOf(variables', n) = BindingOf(variables, n)
            /\ \A n \in DOMAIN variables' : variables'[n] # None
            /\ envOp'.ret = envOp'.arg
      ]_vars

\* NullValue and the empty text bound, and stored.
C10_Witness ==
    /\ envOp.op = "bind" /\ envOp.arg = NullValue
    /\ "x" \in DOMAIN variables /\ variables["x"] = NullValue
    /\ "y" \in DOMAIN variables /\ variables["y"] = StringValue("")

\* C10 as claimed: no variable is bound to None, to NullValue or to the
\* empty text.
C10_NoEmptyBinding ==
    \A n \in DOMAIN variables :
        variables[n] \notin {None, NullValue, StringValue("")}

(***************************************************************************)
(* Claims about assignment at the prompt, checked under Spec.              *)
(***************************************************************************)
XGet == <<"x", "=">> \o GetA

RepeatXGet == <<"repeat", NumToken(MaxRepeat)>> \o XGet

\* The lines that assign the value of an assignable command to x.
AssignLines ==
    { XGet, XGet \o <<"|", "a.name">>, XGet \o <<"|", "a.missing">> }

\* The lines that assign the value of a command that is not assignable.
NotAssignableLines ==
    { <<"x", "=", "repeat", NumToken(MaxRepeat)>> \o GetA,
      <<"x", "=", "header", "A", "c">>,
      <<"x", "=", "y", "=">> \o GetA }

IsError(value) == value.type = "text" /\ value.cls = "ErrorString"

\* C6: with a current host, every execution of `x = get /a` evaluates get
\* anew: it sends one more request, and when the request is answered x is
\* bound to the response of this very request, which is also the value of
\* the line.  `repeat N x = get /a` that runs to its end sends N requests
\* and leaves x bound to the response of the last.
C6_Reevaluates ==
    [][ /\ (line' = XGet /\ host # 0) =>
            /\ sent' = sent + 1
            /\ outcome'.exc \in {"", "ConnectionError"}
            /\ outcome'.exc = "" =>
                   /\ outcome'.val.type = "response"
                   /\ outcome'.val.serial = sent'
                   /\ BindingOf(variables', "x") = outcome'.val
        /\ (line' = RepeatXGet /\ host # 0 /\ outcome'.exc = "") =>
            /\ sent' = sent + MaxRepeat
            /\ BindingOf(variables', "x").type = "response"
            /\ BindingOf(variables', "x").serial = sent'
      ]_vars

\* x bound by a second request of the session to the response of that
\* request.
C6_Witness ==
    /\ line = XGet /\ outcome.exc = ""
    /\ sent >= 2
    /\ BindingOf(variables, "x").type = "response"
    /\ BindingOf(variables, "x").serial = sent

\* C7: assigning the value of a command that is not assignable (repeat,
\* header, an assignment) raises ValueError, and the command is not
\* evaluated: no request is sent and the variables, the current host and
\* its headers are as before.
C7_NotAssignable ==
    [][ line' \in NotAssignableLines =>
            /\ outcome'.exc = "ValueError"
            /\ outcome'.val = None
            /\ UNCHANGED <<host, heap, variables, sent, request>>
      ]_vars

\* `x = header A c` refused with a current host whose headers it would
\* have changed.
C7_Witness ==
    /\ line = <<"x", "=", "header", "A", "c">>
    /\ outcome.exc = "ValueError"
    /\ host # 0
    /\ "A" \notin DOMAIN heap[host].headers

\* The line returned a value that is no error message.
Succeeded == outcome.exc = "" /\ outcome.val # None /\ ~IsError(outcome.val)

\* C8: `x = COMMAND ARGS` with an assignable command binds x to the result
\* when the evaluation succeeds, and leaves the binding of x as it was
\* when it does not (no current host, connection refused, response that is
\* not JSON or key not found in a piped select): x is never bound to an
\* error.
C8_BindsOnlyOnSuccess ==
    [][ line' \in AssignLines =>
            IF Succeeded'
            THEN BindingOf(variables', "x") = outcome'.val
            ELSE BindingOf(variables', "x") = BindingOf(variables, "x")
      ]_vars

(***************************************************************************)
(* Claims about repeat, checked under SpecRepeat.                          *)
(***************************************************************************)
\* The line is `repeat n get /a`, typed with a current host, and no request
\* of it was refused.
Repeated(n) ==
    /\ line' = RepeatGet(n)
    /\ host # 0
    /\ outcome'.exc # "ConnectionError"

\* C11: for every count n from 0 on, `repeat n get /a` evaluates get n
\* times, which sends n requests, and returns the summary of n
\* repetitions.
C11_RepeatsAndSums ==
    [][ \A n \in 0..MaxRepeat :
            Repeated(n) =>
                /\ sent' = sent + n
                /\ outcome'.exc = ""
                /\ outcome'.val = RepeatSummary(n)
      ]_vars

(***************************************************************************)
(* Claims about stored requests, checked under SpecRequest.                *)
(***************************************************************************)
\* C12: `r = request get /a` stores a copy of the current host as it is
\* then; no later header addition or removal, host switch, host
\* redefinition or host removal changes the request stored in r; and
\* `send r` sends the request to the hostname and with the headers stored
\* in r, whatever the current host.
C12_Snapshot ==
    [][ /\ (line' = RRequest /\ host # 0) =>
            /\ outcome'.exc = ""
            /\ BindingOf(variables', "r") =
                   Request(heap[host], "get", "/a", "")
        /\ (line' \in HostLines \cup {SendR}) =>
            BindingOf(variables', "r") = BindingOf(variables, "r")
        /\ (line' = SendR /\ "r" \in DOMAIN variables) =>
            /\ sent' = sent + 1
            /\ request'.url = <<variables["r"].host.hostname, "", "/a">>
            /\ request'.headers = variables["r"].host.headers
      ]_vars

\* The request sent with a header the current host does not have, to a
\* host that is not the current one.
C12_Witness ==
    /\ line = SendR /\ outcome.exc = ""
    /\ host # 0
    /\ request.url[1] # heap[host].hostname
    /\ request.headers # heap[host].headers
    /\ "A" \in DOMAIN request.headers

(***************************************************************************)
(* Claims about scripts and the top-level loop, checked under SpecScript.  *)
(***************************************************************************)
\* C13: no failing line ends the process, be it typed at the prompt, read
\* from a script by run or read from the startup script: only the end of
\* the input ends the session.
C13_NeverCrashes == pc # "crashed"

Run(file_name) == <<"run", file_name>>

\* The step is the evaluation of a line typed at the prompt.
Typed == pc = "prompt" /\ pc' = "prompt"

\* C14 (amended): when a line of a script loaded by `run` at the prompt
\* raises an exception, no later line of the script is evaluated, the
\* exception reaches main's handler, the session goes on at the prompt, and
\* the bindings made by the lines before remain.  A line that names no
\* known command raises nothing: it is skipped and the lines after it are
\* evaluated.
C14_ScriptAborts ==
    [][ Typed =>
          /\ line' = Run("bad") =>
                /\ outcome'.exc = "KeyError"
                /\ BindingOf(variables', "h").type = "host"
                /\ host' # 0 /\ host' = variables'["h"].id
                /\ BindingOf(variables', "y") = BindingOf(variables, "y")
                /\ sent' = sent
          /\ (line' = Run("ok") /\ outcome'.exc # "") =>
                /\ outcome'.exc = "ConnectionError"
                /\ BindingOf(variables', "h").type = "host"
                /\ BindingOf(variables', "y") = BindingOf(variables, "y")
          /\ (line' = Run("typo") /\ outcome'.exc = "") =>
                /\ sent' = sent + 1
                /\ BindingOf(variables', "y").type = "response"
                /\ BindingOf(variables', "y").serial = sent'
          /\ line' = Run("typo") => outcome'.exc \in {"", "ConnectionError"}
      ]_vars

\* `run bad` typed at the prompt: its first line has bound h, its third
\* line has not bound y, and the session is at the prompt.
C14_Witness ==
    /\ pc = "prompt"
    /\ line = Run("bad") /\ outcome.exc = "KeyError"
    /\ BindingOf(variables, "h").type = "host"
    /\ "y" \notin DOMAIN variables

\* C14 as claimed: a line of a script that refers to an unknown command is
\* a failure like any other: the script stops there and its later lines
\* are not evaluated.
C14_UnknownAborts ==
    [][ (Typed /\ line' = Run("typo")) =>
            /\ outcome'.exc # ""
            /\ BindingOf(variables', "y") = BindingOf(variables, "y")
      ]_vars

(***************************************************************************)
(* Claims about the pipe filter, checked under SpecPipe.                   *)
(***************************************************************************)
\* Where the "|" followed by a select statement is in a line, 0 if nowhere.
PipeAt(l) ==
    IF \E i \in 1..(Len(l) - 1) : l[i] = "|"
    THEN CHOOSE i \in 1..(Len(l) - 1) : l[i] = "|"
    ELSE 0

\* The line typed made one request and the request was answered.
Answered == Typed /\ line' \in RequestingLines /\ sent' = sent + 1 /\ outcome'.exc = ""

\* C15: an HTTP verb command or send whose arguments hold a "|" followed by
\* a select statement returns the selection of its response by this
\* statement (of a response that is not JSON, the answer of select to it),
\* not the response; without such a "|" it returns the response itself.
C15_PipeFilters ==
    [][ Answered =>
          IF PipeAt(line') # 0
          THEN outcome'.val \in
                   { JsonString(Select(DogDoc, Chars(line'[PipeAt(line') + 1])).json),
                     ErrorString("response is not JSON.") }
          ELSE outcome'.val \in
                   { Response(sent', TRUE, Body("json")),
                     Response(sent', FALSE, Body("html")) }
      ]_vars

(***************************************************************************)
(* Claims about the listing of the variables, checked under SpecVars.      *)
(***************************************************************************)
\* C16: the word ls is registered to the command vars is registered to,
\* and vars or ls typed at the prompt lists every variable bound, whatever
\* its type.
C16_LsListsAll ==
    [][ (Typed /\ line' \in {<<"vars">>, <<"ls">>}) =>
            /\ aliased_commands["ls"] = aliased_commands["vars"]
            /\ outcome'.exc = ""
            /\ outcome'.val = ListingValue(DOMAIN variables)
      ]_vars

(***************************************************************************)
(* Claims about the merge at the last segment, the traversal of arrays     *)
(* and of scalars, and malformed statements, checked under SpecSelect.     *)
(***************************************************************************)
collectName == <<"(">> \o kName \o <<")">>

\* C17 as stated: on {"name": "root", "a": {"name": "Fluffy"}} the
\* statement (name).a.name returns the collected value "root" for the key
\* name that the last segment selects too.
C17_AccumulatorWins ==
    Done(RootDoc, <<collectName, kA, kName>>) =>
        /\ selOut.exc = ""
        /\ selOut.json = JDict(kA :> JDict(kName :> JScalar("root")))

\* C17 (amended): when the keys collected and the keys the last segment
\* selects share a key, the merged result carries the selected value.  For
\* a statement (name).k.P where doc[k] is an object with a key matching P,
\* the result is {k: m}, m holding every key of doc[k] that matches P with
\* its value in doc[k], and the key name with its value in doc only if P
\* does not match it.  On the example document (name).a.name returns
\* {"a": {"name": "Fluffy"}}.
C17_SelectedWins ==
    /\ Done(RootDoc, <<collectName, kA, kName>>) =>
          /\ selOut.exc = ""
          /\ selOut.json = JDict(kA :> JDict(kName :> JScalar("Fluffy")))
    /\ ( /\ selPc = "done"
         /\ Len(segs) = 3
         /\ segs[1] = collectName
         /\ PlainKey(segs[2])
         /\ PlainPattern(segs[3])
         /\ doc.t = "dict"
         /\ HasKey(doc, segs[2])
         /\ GetItem(doc, segs[2]).t = "dict"
         /\ KeysMatching(GetItem(doc, segs[2]), {segs[3]}) # {} ) =>
          LET inner == GetItem(doc, segs[2])
              ks    == KeysMatching(inner, {segs[3]})
              cs    == {kName} \cap Keys(doc)
          IN  /\ selOut.exc = ""
              /\ selOut.json =
                     JDict(segs[2] :>
                           JDict([key \in ks \cup cs |->
                                     IF key \in ks
                                     THEN FormatJson(GetItem(inner, key))
                                     ELSE FormatJson(GetItem(doc, key))]))

\* The key name collected at the root and selected in doc["a"], with
\* different values.
C17_Witness ==
    /\ Done(RootDoc, <<collectName, kA, kName>>)
    /\ selOut.exc = ""
    /\ GetItem(RootDoc, kName) # GetItem(GetItem(RootDoc, kA), kName)
    /\ selOut.json.m[kA].m[kName] = JScalar("Fluffy")

\* What _select gives for element i of the array doc["a"] alone.
Alone(i, statement) == Select(GetItem(doc, kA).c[i], Join(statement, "."))

\* C18: when the statement a.P1...Pn of plain patterns reaches the array
\* doc["a"], the result is {"a": [r1, ..., rm]}, where ri is what
\* evaluating P1...Pn on element i alone gives: no key or value of another
\* element is in it.
C18_PerElement ==
    ( /\ selPc = "done"
      /\ doc = ListDoc
      /\ Len(segs) >= 2
      /\ segs[1] = kA
      /\ \A j \in 2..Len(segs) : PlainPattern(segs[j])
      /\ \A i \in 1..Len(GetItem(doc, kA).c) : Alone(i, Tail(segs)).exc = "" ) =>
        /\ selOut.exc = ""
        /\ selOut.json =
               JDict(kA :> JList([i \in 1..Len(GetItem(doc, kA).c) |->
                                     Alone(i, Tail(segs)).json]))

\* The statement is evaluated on a scalar document: the segment evaluated
\* is the first one, or the second when the first is only a collect
\* clause and another segment follows.
CollectOnly(statement) ==
    /\ ParseExpression(statement[1]).patterns = <<>>
    /\ ParseExpression(statement[1]).collect # <<>>
    /\ Len(statement) >= 2

Evaluated(statement) ==
    IF CollectOnly(statement) THEN Tail(statement) ELSE statement

\* C19: a segment evaluated against a scalar succeeds if and only if no
\* segment remains after it and its pattern list is exactly ['*'], and
\* then the scalar is returned as it is; otherwise the whole select fails
\* with KeyError.  This holds for a document that is a scalar and for the
\* scalar value of a key k in a statement k.S...
C19_ScalarRule ==
    /\ (selPc = "done" /\ doc.t = "scalar") =>
          LET ev == Evaluated(segs)
          IN  IF Len(ev) = 1 /\ ParseExpression(ev[1]).patterns = <<kStar>>
              THEN selOut.exc = "" /\ selOut.json = JScalar(doc.v)
              ELSE selOut.exc = "KeyError" /\ selOut.json = NoJson
    /\ ( /\ selPc = "done"
         /\ doc.t = "dict"
         /\ Len(segs) >= 2
         /\ PlainKey(segs[1])
         /\ HasKey(doc, segs[1])
         /\ GetItem(doc, segs[1]).t = "scalar" ) =>
          IF Len(segs) = 2 /\ ParseExpression(segs[2]).patterns = <<kStar>>
          THEN /\ selOut.exc = ""
               /\ selOut.json = JDict(segs[1] :> JScalar(GetItem(doc, segs[1]).v))
          ELSE selOut.exc = "KeyError" /\ selOut.json = NoJson

\* The scalar value of b returned by b.*, and a scalar document returned
\* by *.
C19_Witness ==
    \/ /\ Done(DogDoc, <<kB, kStar>>)
       /\ selOut.json = JDict(kB :> JScalar("1"))
    \/ /\ Done(Scalar("7"), <<kStar>>)
       /\ selOut.json = JScalar("7")

HowMany(seg, ch) == Cardinality({i \in 1..Len(seg) : seg[i] = ch})

Unbalanced(seg) == HowMany(seg, "(") # HowMany(seg, ")")

\* C20: a statement with unbalanced parentheses in some segment (a(breed or
\* a)b) fails with KeyError on every document; it never returns a result.
C20_AlwaysFails ==
    (selPc = "done" /\ \E i \in 1..Len(segs) : Unbalanced(segs[i])) =>
        selOut.exc = "KeyError"

(***************************************************************************)
(* Claims about remove, checked under SpecRemove.                          *)
(***************************************************************************)
\* The headers of the current host, none when there is no current host.
CurrentHeaders == IF host = 0 THEN NoHeaders ELSE heap[host].headers

\* C21: `remove NAME` unbinds the variable NAME if it is bound, leaves the
\* headers of the current host as they are then, and clears the current
\* host exactly when the value removed is the current host; only if no
\* variable NAME is bound does it remove the header NAME of the current
\* host; if there is neither it returns an error and hosts, headers and
\* variables stay as they are.
C21_RemovePrecedence ==
    [][ \A name \in RemoveNames :
          (Typed /\ line' = Remove(name)) =>
            /\ outcome'.exc = ""
            /\ IF name \in DOMAIN variables
               THEN /\ variables' = Without(variables, name)
                    /\ ~IsError(outcome'.val)
                    /\ host' = IF variables[name] = HostRef(host) THEN 0 ELSE host
                    /\ host' # 0 => heap'[host'].headers = CurrentHeaders
               ELSE IF name \in DOMAIN CurrentHeaders
               THEN /\ variables' = variables
                    /\ ~IsError(outcome'.val)
                    /\ host' = host
                    /\ heap'[host].headers = Without(CurrentHeaders, name)
               ELSE /\ IsError(outcome'.val)
                    /\ UNCHANGED <<variables, host, heap>>
      ]_vars

\* The variable h removed while the current host, another one, keeps its
\* header h.
C21_Witness ==
    /\ line = Remove("h")
    /\ "h" \notin DOMAIN variables
    /\ "h" \in DOMAIN CurrentHeaders
    /\ ~IsError(outcome.val)
    /\ outcome.val = StringValue("removed variable")

(***************************************************************************)
(* Claims about the current host, checked under Spec.                      *)
(***************************************************************************)
\* C22: after any sequence of lines the current host is unset or is the
\* value of some variable of type host.
C22_CurrentIsBound ==
    host = 0 \/ \E name \in DOMAIN variables : variables[name] = HostRef(host)

(***************************************************************************)
(* Claims about the keys one segment matches, checked under SpecSelect.    *)
(***************************************************************************)
\* What _select gives for the value of one key of the document alone.
Branch(key, statement) == Select(GetItem(doc, key), Join(statement, "."))

\* C23: when the first segment of a statement of plain patterns matches
\* several keys of the document, the value returned under each key
\* matched is what the rest of the statement gives on this key's value
\* alone: no key or value of another branch is in it.
C23_SiblingsIndependent ==
    ( /\ selPc = "done"
      /\ doc = SiblingDoc
      /\ Len(segs) >= 2
      /\ \A j \in 1..Len(segs) : PlainPattern(segs[j])
      /\ Cardinality(KeysMatching(doc, {segs[1]})) >= 2
      /\ \A key \in KeysMatching(doc, {segs[1]}) :
             Branch(key, Tail(segs)).exc = "" ) =>
        /\ selOut.exc = ""
        /\ selOut.json =
               JDict([key \in KeysMatching(doc, {segs[1]}) |->
                         Branch(key, Tail(segs)).json])
====
